---- MODULE Spec2Model ----
(***************************************************************************)
(* Block meshing: the one-quad-per-face scanner (src/src/simple.rs) and    *)
(* the greedy quad merger (src/src/greedy/merge_strategy.rs), over the     *)
(* voxel capability of src/src/lib.rs.                                     *)
(*                                                                         *)
(* Coordinates are triples <<x, y, z>>; linear indices are 0-based; the    *)
(* voxel array is a function 0..size-1 -> voxel.  u32 arithmetic is kept   *)
(* modulo 2^WordBits (the width is scaled down from 32 so that products    *)
(* stay inside TLC's integers; every array is far smaller than             *)
(* 2^WordBits, so a wrapped index is out of range exactly as in u32).      *)
(***************************************************************************)
EXTENDS Integers, Sequences, FiniteSets, TLC

VARIABLES shape, voxels, min, max, faces, order, pc, todo, groups, probe,
          visited, face, last

vars == <<shape, voxels, min, max, faces, order, pc, todo, groups, probe,
          visited, face, last>>

(***************************************************************************)
(* Bounds of the model.                                                    *)
(***************************************************************************)
WordBits == 12

\* longest side of the meshed interior, in cells
MaxSide == 2

\* most cells the meshed interior has
MaxCells == 4

\* side of the largest solid cube of the cube specification
MaxCube == 2

(***************************************************************************)
(* u32 / i32 arithmetic.                                                   *)
(***************************************************************************)
Word == 2 ^ WordBits

wrapping_add(a, b) == (a + b) % Word

wrapping_mul(a, b) == (a * b) % Word

wrapping_sub(a, b) == (a - b) % Word

\* glam's as_uvec3 on one component: i32 `as` u32
as_u32(i) == i % Word

\* glam's as_ivec3 on one component: u32 `as` i32
as_i32(u) == IF u >= Word \div 2 THEN u - Word ELSE u

Axes == 1..3

FaceIds == 1..6

(***************************************************************************)
(* lib.rs: visibility and the capability object.  A voxel is a record of   *)
(* what the capability object extracts from it.                            *)
(***************************************************************************)
VoxelVisibility == {"Empty", "Translucent", "Opaque"}

Vox(vis, mv, nv) == [vis |-> vis, mv |-> mv, nv |-> nv]

EMPTY == Vox("Empty", 0, 0)

get_visibility(voxel) == voxel.vis

merge_value(voxel) == voxel.mv

merge_value_facing_neighbour(voxel) == voxel.nv

(***************************************************************************)
(* ndshape: linearize of a 3D shape, with wrapping u32 arithmetic.         *)
(***************************************************************************)
size(s) == s[1] * s[2] * s[3]

linearize(s, p) ==
    wrapping_add(wrapping_add(p[1], wrapping_mul(s[1], p[2])),
                 wrapping_mul(s[1] * s[2], p[3]))

\* unchecked read of the voxel array.  An index outside the array is
\* undefined behaviour in the source; here it is outside the function's
\* domain, so that TLC stops with an error rather than go on with a value.
\* The scanner of simple.rs tests its indices before reading and ends in
\* pc = "undefined" instead.
get_unchecked(i) == voxels[i]

(***************************************************************************)
(* Face table: for each of the 6 faces the sign of the normal and the      *)
(* axes n, u, v.  Faces 1..3 look down -X, -Y, -Z, faces 4..6 up +X, +Y,   *)
(* +Z.  This is the right-handed, Y-up table: U is Z and V is Y on the X    *)
(* faces, U is Z and V is X on the Y faces, U is X and V is Y on the Z      *)
(* faces.                                                                  *)
(***************************************************************************)
Face(sgn, n, u, v) == [n_sign |-> sgn, n |-> n, u |-> u, v |-> v]

RIGHT_HANDED_Y_UP == << Face(-1, 1, 3, 2), Face(-1, 2, 3, 1), Face(-1, 3, 1, 2),
                        Face(1, 1, 3, 2), Face(1, 2, 3, 1), Face(1, 3, 1, 2) >>

Unit(axis) == [i \in Axes |-> IF i = axis THEN 1 ELSE 0]

\* OrientedBlockFace::signed_normal, an IVec3
signed_normal(f) == [i \in Axes |-> IF i = f.n THEN f.n_sign ELSE 0]

(***************************************************************************)
(* Extents (ilattice) as used by both scanners.                            *)
(***************************************************************************)
\* bounds.rs: the extent [lo, hi] is well formed and lies within the shape
assert_in_bounds(s, lo, hi) ==
    \A i \in Axes : lo[i] <= hi[i] /\ hi[i] < s[i]

\* the interior taken from the extent's own minimum, without the padding
interior_minimum_unpadded(lo, hi) == [i \in Axes |-> as_u32(as_i32(lo[i]))]

\* Extent::from_min_and_max(min, max).padded(-1), converted back to UVec3
interior_minimum(lo, hi) == [i \in Axes |-> as_u32(as_i32(lo[i]) + 1)]

interior_shape(lo, hi) ==
    [i \in Axes |-> as_u32((as_i32(hi[i]) + 1 - as_i32(lo[i])) - 2)]

\* Extent::least_upper_bound is minimum + shape in u32: the sum overflows
\* when the padded shape was negative
lub_overflows(mn, sh) == \E i \in Axes : mn[i] + sh[i] >= Word

least_upper_bound(mn, sh) == [i \in Axes |-> wrapping_add(mn[i], sh[i])]

RangeLen(a, b) == IF b > a THEN b - a ELSE 0

\* iter3 with y innermost and x in the middle
iter3_y_innermost(mn, sh) ==
    LET lub == least_upper_bound(mn, sh)
        nx == RangeLen(mn[1], lub[1])
        ny == RangeLen(mn[2], lub[2])
        nz == RangeLen(mn[3], lub[3])
    IN  [k \in 1..(nx * ny * nz) |->
            << mn[1] + (((k - 1) \div ny) % nx),
               mn[2] + ((k - 1) % ny),
               mn[3] + ((k - 1) \div (nx * ny)) >>]

\* Extent::iter3: the product of the ranges minimum..lub, z outermost and x
\* innermost
iter3(mn, sh) ==
    LET lub == least_upper_bound(mn, sh)
        nx == RangeLen(mn[1], lub[1])
        ny == RangeLen(mn[2], lub[2])
        nz == RangeLen(mn[3], lub[3])
    IN  [k \in 1..(nx * ny * nz) |->
            << mn[1] + ((k - 1) % nx),
               mn[2] + (((k - 1) \div nx) % ny),
               mn[3] + ((k - 1) \div (nx * ny)) >>]

InArray(i) == i \in DOMAIN voxels

NoProbe == [valid |-> FALSE, p |-> <<0, 0, 0>>, p_index |-> 0,
            neighbor_index |-> <<>>, reads |-> {}]

NoLast == [valid |-> FALSE, face |-> 1, min_index |-> 0, quad_min |-> <<0, 0, 0>>,
           max_width |-> 0, max_height |-> 0, visited |-> {},
           quad_width |-> 0, quad_height |-> 0]

EmptyGroups == [f \in FaceIds |-> <<>>]

(***************************************************************************)
(* simple.rs: visible_block_faces.                                         *)
(***************************************************************************)
\* line 61: the linear stride to the neighbour across face f
kernel_stride(f) ==
    linearize(shape, [i \in Axes |-> as_u32(signed_normal(faces[f])[i])])

\* the face test meshing every face that looks at a translucent voxel
simple_face_needs_mesh_any_translucent(p_voxel, neighbor_voxel) ==
    CASE get_visibility(neighbor_voxel) = "Empty" -> TRUE
      [] get_visibility(neighbor_voxel) = "Translucent" -> TRUE
      [] get_visibility(neighbor_voxel) = "Opaque" -> FALSE

\* lines 79-85
simple_face_needs_mesh(p_voxel, neighbor_voxel) ==
    CASE get_visibility(neighbor_voxel) = "Empty" -> TRUE
      [] get_visibility(neighbor_voxel) = "Translucent" ->
            get_visibility(p_voxel) = "Opaque"
      [] get_visibility(neighbor_voxel) = "Opaque" -> FALSE

UnorientedUnitQuad(p) == [minimum |-> p, width |-> 1, height |-> 1]

\* the call without its validation
visible_block_faces_unvalidated ==
    /\ pc = "simple_call"
    /\ LET mn == interior_minimum(min, max)
           sh == interior_shape(min, max)
       IN  IF lub_overflows(mn, sh)
           THEN \/ pc' = "panicked" /\ todo' = <<>>
                \/ pc' = "simple_scan" /\ todo' = iter3(mn, sh)
           ELSE pc' = "simple_scan" /\ todo' = iter3(mn, sh)
    /\ UNCHANGED <<shape, voxels, min, max, faces, order, groups, probe, visited, face, last>>

\* lines 52-62: validation, then the interior and its iterator.  With a
\* negative padded shape the iterator's upper bound overflows: a build with
\* overflow checks panics there, one without wraps.
visible_block_faces ==
    /\ pc = "simple_call"
    /\ LET mn == interior_minimum(min, max)
           sh == interior_shape(min, max)
       IN  IF ~assert_in_bounds(shape, min, max)
           THEN pc' = "panicked" /\ todo' = <<>>
           ELSE IF lub_overflows(mn, sh)
           THEN \/ pc' = "panicked" /\ todo' = <<>>
                \/ pc' = "simple_scan" /\ todo' = iter3(mn, sh)
           ELSE pc' = "simple_scan" /\ todo' = iter3(mn, sh)
    /\ UNCHANGED <<shape, voxels, min, max, faces, order, groups, probe, visited, face, last>>

\* lines 64-91: one iteration of the loop over the interior
simple_scan_cell ==
    /\ pc = "simple_scan"
    /\ todo # <<>>
    /\ LET p == Head(todo)
           p_index == linearize(shape, p)
           nbr == [f \in FaceIds |-> wrapping_add(p_index, kernel_stride(f))]
           hit == { f \in FaceIds :
                      simple_face_needs_mesh(voxels[p_index], voxels[nbr[f]]) }
       IN  IF ~InArray(p_index)
           THEN /\ pc' = "undefined"
                /\ probe' = [NoProbe EXCEPT !.valid = TRUE, !.p = p,
                                !.p_index = p_index, !.reads = {p_index}]
                /\ UNCHANGED groups
           ELSE IF get_visibility(voxels[p_index]) = "Empty"
           THEN /\ pc' = pc
                /\ probe' = [NoProbe EXCEPT !.valid = TRUE, !.p = p,
                                !.p_index = p_index, !.reads = {p_index}]
                /\ UNCHANGED groups
           ELSE IF \E f \in FaceIds : ~InArray(nbr[f])
           THEN /\ pc' = "undefined"
                /\ probe' = [NoProbe EXCEPT !.valid = TRUE, !.p = p,
                                !.p_index = p_index, !.neighbor_index = nbr,
                                !.reads = {p_index} \cup {nbr[f] : f \in FaceIds}]
                /\ UNCHANGED groups
           ELSE /\ pc' = pc
                /\ probe' = [valid |-> TRUE, p |-> p, p_index |-> p_index,
                             neighbor_index |-> nbr,
                             reads |-> {p_index} \cup {nbr[f] : f \in FaceIds}]
                /\ groups' = [f \in FaceIds |->
                                IF f \in hit
                                THEN Append(groups[f], UnorientedUnitQuad(p))
                                ELSE groups[f]]
    /\ todo' = Tail(todo)
    /\ UNCHANGED <<shape, voxels, min, max, faces, order, visited, face, last>>

\* the loop over the interior is exhausted: the call returns
simple_return ==
    /\ pc = "simple_scan"
    /\ todo = <<>>
    /\ pc' = "done"
    /\ UNCHANGED <<shape, voxels, min, max, faces, order, todo, groups, probe, visited, face, last>>

(***************************************************************************)
(* Inputs of the one-quad-per-face scanner.                                *)
(***************************************************************************)
\* the shapes of the voxel array
SimpleShapes == { <<MaxSide + 2, 3, 3>>, <<3, MaxSide + 2, 3>>, <<3, 3, MaxSide + 2>>,
                  <<MaxSide + 2, MaxSide + 2, 3>> }

\* the extents of a call on an array of shape s.  In bounds, per axis: the
\* whole axis, the axis without its first cell, a single cell.  Out of
\* bounds: the whole array with, on one axis, the maximum or the minimum (or
\* both) one past the last cell.
ValidAxisExtents(n) == { <<0, n - 1>>, <<1, n - 1>>, <<1, 1>> }

Whole(s) == [lo |-> <<0, 0, 0>>, hi |-> <<s[1] - 1, s[2] - 1, s[3] - 1>>]

SimpleExtents(s) ==
    { [lo |-> <<ex[1], ey[1], ez[1]>>, hi |-> <<ex[2], ey[2], ez[2]>>] :
        ex \in ValidAxisExtents(s[1]), ey \in ValidAxisExtents(s[2]),
        ez \in ValidAxisExtents(s[3]) }
    \cup { [Whole(s) EXCEPT !.hi[a] = s[a]] : a \in Axes }
    \cup { [Whole(s) EXCEPT !.lo[a] = s[a]] : a \in Axes }
    \cup { [Whole(s) EXCEPT !.lo[a] = s[a], !.hi[a] = s[a]] : a \in Axes }

\* the visibility of the voxel at <<x, y, z>> is entry (x + 2y + 3z) of a
\* palette of PaletteLen visibilities, cyclically
PaletteLen == 5

delinearize(s, i) == << i % s[1], (i \div s[1]) % s[2], i \div (s[1] * s[2]) >>

VisibilityVoxel(vis) == IF vis = "Empty" THEN EMPTY ELSE Vox(vis, 1, 1)

PaletteArray(s, pal) ==
    [i \in 0..(size(s) - 1) |->
        LET c == delinearize(s, i)
        IN  VisibilityVoxel(pal[(c[1] + 2 * c[2] + 3 * c[3]) % PaletteLen])]

InitSimple ==
    /\ shape \in SimpleShapes
    /\ faces = RIGHT_HANDED_Y_UP
    /\ order = "iter3"
    /\ \E pal \in [0..(PaletteLen - 1) -> VoxelVisibility] :
          voxels = PaletteArray(shape, pal)
    /\ \E e \in SimpleExtents(shape) : min = e.lo /\ max = e.hi
    /\ pc = "simple_call"
    /\ todo = <<>>
    /\ groups = EmptyGroups
    /\ probe = NoProbe
    /\ visited = {}
    /\ face = 1
    /\ last = NoLast

NextSimple == visible_block_faces \/ simple_scan_cell \/ simple_return

SpecSimple == InitSimple /\ [][NextSimple]_vars

(***************************************************************************)
(* greedy/merge_strategy.rs: VoxelMerger.                                  *)
(***************************************************************************)
\* whether the face of `voxel` (at linear index voxel_stride) across
\* visibility_offset still needs a quad: not empty, not visited, and visible
\* against the adjacent voxel
face_needs_mesh(voxel, voxel_stride, visibility_offset) ==
    IF get_visibility(voxel) = "Empty" \/ voxel_stride \in visited
    THEN FALSE
    ELSE LET adjacent_voxel ==
                 get_unchecked(wrapping_add(voxel_stride, visibility_offset))
         IN  CASE get_visibility(adjacent_voxel) = "Empty" -> TRUE
               [] get_visibility(adjacent_voxel) = "Translucent" ->
                     get_visibility(voxel) = "Opaque"
               [] get_visibility(adjacent_voxel) = "Opaque" -> FALSE

\* lines 131-151: the loop of get_row_width, from its state (row_stride,
\* quad_width)
RECURSIVE row_width_loop(_, _, _, _, _, _, _)
row_width_loop(quad_value, quad_neighbour_value, visibility_offset, row_stride, delta_stride, max_width, quad_width) ==
    IF ~(quad_width < max_width)
    THEN quad_width
    ELSE LET voxel == get_unchecked(row_stride)
             neighbour == get_unchecked(wrapping_add(row_stride, visibility_offset))
         IN  IF ~face_needs_mesh(voxel, row_stride, visibility_offset)
             THEN quad_width
             ELSE IF \/ merge_value(voxel) # quad_value
                     \/ merge_value_facing_neighbour(neighbour) # quad_neighbour_value
             THEN quad_width
             ELSE row_width_loop(quad_value, quad_neighbour_value, visibility_offset,
                                 row_stride + delta_stride, delta_stride, max_width,
                                 quad_width + 1)

\* get_row_width without the comparison of the key seen from the neighbour
RECURSIVE row_width_loop_own_key_only(_, _, _, _, _, _, _)
row_width_loop_own_key_only(quad_value, quad_neighbour_value, visibility_offset, row_stride, delta_stride, max_width, quad_width) ==
    IF ~(quad_width < max_width)
    THEN quad_width
    ELSE LET voxel == get_unchecked(row_stride)
         IN  IF ~face_needs_mesh(voxel, row_stride, visibility_offset)
             THEN quad_width
             ELSE IF merge_value(voxel) # quad_value
             THEN quad_width
             ELSE row_width_loop_own_key_only(quad_value, quad_neighbour_value,
                                              visibility_offset, row_stride + delta_stride,
                                              delta_stride, max_width, quad_width + 1)

get_row_width_own_key_only(quad_value, quad_neighbour_value, visibility_offset, start_stride, delta_stride, max_width) ==
    row_width_loop_own_key_only(quad_value, quad_neighbour_value, visibility_offset,
                                start_stride, delta_stride, max_width, 0)

get_row_width(quad_value, quad_neighbour_value, visibility_offset, start_stride, delta_stride, max_width) ==
    row_width_loop(quad_value, quad_neighbour_value, visibility_offset,
                   start_stride, delta_stride, max_width, 0)

\* the loop of find_quad stopping only at a row that matches on no cell
RECURSIVE height_loop_partial_rows(_, _, _, _, _, _, _)
height_loop_partial_rows(quad_value, quad_neighbour_value, face_strides, row_start_stride, quad_width, max_height, quad_height) ==
    IF ~(quad_height < max_height)
    THEN quad_height
    ELSE LET row_width ==
                 get_row_width(quad_value, quad_neighbour_value,
                               face_strides.visibility_offset, row_start_stride,
                               face_strides.u_stride, quad_width)
         IN  IF row_width < 1
             THEN quad_height
             ELSE height_loop_partial_rows(quad_value, quad_neighbour_value, face_strides,
                              wrapping_add(row_start_stride, face_strides.v_stride),
                              quad_width, max_height, quad_height + 1)

\* lines 91-108: the loop of find_quad, from its state (row_start_stride,
\* quad_height)
RECURSIVE height_loop(_, _, _, _, _, _, _)
height_loop(quad_value, quad_neighbour_value, face_strides, row_start_stride, quad_width, max_height, quad_height) ==
    IF ~(quad_height < max_height)
    THEN quad_height
    ELSE LET row_width ==
                 get_row_width(quad_value, quad_neighbour_value,
                               face_strides.visibility_offset, row_start_stride,
                               face_strides.u_stride, quad_width)
         IN  IF row_width < quad_width
             THEN quad_height
             ELSE height_loop(quad_value, quad_neighbour_value, face_strides,
                              wrapping_add(row_start_stride, face_strides.v_stride),
                              quad_width, max_height, quad_height + 1)

\* find_quad with the U and V strides taken for each other
find_quad_strides_swapped(min_index, max_width, max_height, face_strides) ==
    LET swapped == [face_strides EXCEPT !.u_stride = face_strides.v_stride,
                                        !.v_stride = face_strides.u_stride]
        quad_value == merge_value(get_unchecked(min_index))
        quad_neighbour_value ==
            merge_value_facing_neighbour(
                get_unchecked(wrapping_add(min_index, swapped.visibility_offset)))
        quad_width ==
            get_row_width(quad_value, quad_neighbour_value,
                          swapped.visibility_offset, min_index,
                          swapped.u_stride, max_width)
    IN  << quad_width,
           height_loop(quad_value, quad_neighbour_value, swapped,
                       min_index + swapped.v_stride, quad_width, max_height, 1) >>

\* find_quad that never grows the quad along V
find_quad_width_only(min_index, max_width, max_height, face_strides) ==
    LET quad_value == merge_value(get_unchecked(min_index))
        quad_neighbour_value ==
            merge_value_facing_neighbour(
                get_unchecked(wrapping_add(min_index, face_strides.visibility_offset)))
    IN  << get_row_width(quad_value, quad_neighbour_value,
                         face_strides.visibility_offset, min_index,
                         face_strides.u_stride, max_width), 1 >>

\* find_quad whose rows are measured against max_width instead of the
\* width already fixed
find_quad_rows_against_max_width(min_index, max_width, max_height, face_strides) ==
    LET quad_value == merge_value(get_unchecked(min_index))
        quad_neighbour_value ==
            merge_value_facing_neighbour(
                get_unchecked(wrapping_add(min_index, face_strides.visibility_offset)))
        quad_width ==
            get_row_width(quad_value, quad_neighbour_value,
                          face_strides.visibility_offset, min_index,
                          face_strides.u_stride, max_width)
    IN  << quad_width,
           height_loop(quad_value, quad_neighbour_value, face_strides,
                       min_index + face_strides.v_stride, max_width, max_height, 1) >>

\* find_quad whose height loop runs while quad_height <= max_height
find_quad_height_overrun(min_index, max_width, max_height, face_strides) ==
    LET quad_value == merge_value(get_unchecked(min_index))
        quad_neighbour_value ==
            merge_value_facing_neighbour(
                get_unchecked(wrapping_add(min_index, face_strides.visibility_offset)))
        quad_width ==
            get_row_width(quad_value, quad_neighbour_value,
                          face_strides.visibility_offset, min_index,
                          face_strides.u_stride, max_width)
    IN  << quad_width,
           height_loop(quad_value, quad_neighbour_value, face_strides,
                       min_index + face_strides.v_stride, quad_width, max_height + 1, 1) >>

find_quad(min_index, max_width, max_height, face_strides) ==
    LET quad_value == merge_value(get_unchecked(min_index))
        quad_neighbour_value ==
            merge_value_facing_neighbour(
                get_unchecked(wrapping_add(min_index, face_strides.visibility_offset)))
        quad_width ==
            get_row_width(quad_value, quad_neighbour_value,
                          face_strides.visibility_offset, min_index,
                          face_strides.u_stride, max_width)
        quad_height ==
            height_loop(quad_value, quad_neighbour_value, face_strides,
                        min_index + face_strides.v_stride, quad_width, max_height, 1)
    IN  <<quad_width, quad_height>>

(***************************************************************************)
(* The greedy driver (greedy_quads), which calls find_quad.                *)
(***************************************************************************)
\* the strides of face f: along the normal, along U, along V, and the offset
\* to the voxel sharing the face
FaceStrides(f) ==
    LET n_stride == linearize(shape, Unit(faces[f].n))
    IN  [n_stride |-> n_stride,
         u_stride |-> linearize(shape, Unit(faces[f].u)),
         v_stride |-> linearize(shape, Unit(faces[f].v)),
         visibility_offset |-> IF faces[f].n_sign > 0
                               THEN n_stride
                               ELSE wrapping_sub(0, n_stride)]

\* the cells of the interior in the order face f scans them: slice by slice
\* along the normal; within a slice either as iter3 walks it (the lower of
\* the two slice axes innermost) or row-major (U innermost)
ScanAxes(f) ==
    LET n == faces[f].n
        lo == CHOOSE a \in Axes \ {n} : \A b \in Axes \ {n} : a <= b
        hi == CHOOSE a \in Axes \ {n} : \A b \in Axes \ {n} : a >= b
    IN  IF order = "iter3" THEN <<lo, hi, n>> ELSE <<faces[f].u, faces[f].v, n>>

slice_cells(f, mn, sh) ==
    LET ax == ScanAxes(f)
        n1 == sh[ax[1]]
        n2 == sh[ax[2]]
        n3 == sh[ax[3]]
    IN  [k \in 1..(n1 * n2 * n3) |->
            [i \in Axes |->
                IF i = ax[1] THEN mn[i] + ((k - 1) % n1)
                ELSE IF i = ax[2] THEN mn[i] + (((k - 1) \div n1) % n2)
                ELSE mn[i] + ((k - 1) \div (n1 * n2))]]

\* the linear indices of the cells of a quad
quad_indices(quad_min, quad_width, quad_height, f) ==
    { linearize(shape, [i \in Axes |->
                          quad_min[i] + a * Unit(faces[f].u)[i] + b * Unit(faces[f].v)[i]]) :
        a \in 0..(quad_width - 1), b \in 0..(quad_height - 1) }

UnorientedQuad(p, w, h) == [minimum |-> p, width |-> w, height |-> h]

\* the call: validation, the buffer reset, and the first face's scan set up
greedy_quads ==
    /\ pc = "greedy_call"
    /\ IF ~assert_in_bounds(shape, min, max)
       THEN /\ pc' = "panicked"
            /\ UNCHANGED <<todo, groups, visited, face>>
       ELSE /\ pc' = "greedy_scan"
            /\ groups' = EmptyGroups
            /\ visited' = {}
            /\ face' = 1
            /\ todo' = slice_cells(1, interior_minimum(min, max), interior_shape(min, max))
    /\ UNCHANGED <<shape, voxels, min, max, faces, order, probe, last>>

\* one cell of the scan of the current face: skipped, or the seed of a quad
greedy_scan_cell ==
    /\ pc = "greedy_scan"
    /\ todo # <<>>
    /\ LET quad_min == Head(todo)
           quad_min_index == linearize(shape, quad_min)
           quad_min_voxel == get_unchecked(quad_min_index)
           face_strides == FaceStrides(face)
           mn == interior_minimum(min, max)
           sh == interior_shape(min, max)
           u == faces[face].u
           v == faces[face].v
           max_width == (mn[u] + sh[u]) - quad_min[u]
           max_height == (mn[v] + sh[v]) - quad_min[v]
           quad == find_quad(quad_min_index, max_width, max_height, face_strides)
       IN  IF ~face_needs_mesh(quad_min_voxel, quad_min_index,
                               face_strides.visibility_offset)
           THEN UNCHANGED <<groups, visited, last>>
           ELSE /\ visited' = visited \cup quad_indices(quad_min, quad[1], quad[2], face)
                /\ groups' = [groups EXCEPT ![face] =
                                Append(@, UnorientedQuad(quad_min, quad[1], quad[2]))]
                /\ last' = [valid |-> TRUE, face |-> face,
                            min_index |-> quad_min_index, quad_min |-> quad_min,
                            max_width |-> max_width, max_height |-> max_height,
                            visited |-> visited,
                            quad_width |-> quad[1], quad_height |-> quad[2]]
    /\ todo' = Tail(todo)
    /\ UNCHANGED <<shape, voxels, min, max, faces, order, pc, probe, face>>

\* the scan of a face is exhausted: the next face starts with a cleared
\* visited buffer, or the call returns
greedy_next_face ==
    /\ pc = "greedy_scan"
    /\ todo = <<>>
    /\ IF face < 6
       THEN /\ face' = face + 1
            /\ visited' = {}
            /\ todo' = slice_cells(face + 1, interior_minimum(min, max),
                                   interior_shape(min, max))
            /\ pc' = pc
       ELSE /\ pc' = "done"
            /\ UNCHANGED <<face, visited, todo>>
    /\ UNCHANGED <<shape, voxels, min, max, faces, order, groups, probe, last>>

(***************************************************************************)
(* Inputs of the greedy merger.                                            *)
(***************************************************************************)
ScanOrders == {"iter3", "rows_along_u"}

\* the interiors: boxes of at most MaxCells cells, no side over MaxSide
InteriorDims ==
    { d \in (1..MaxSide) \X (1..MaxSide) \X (1..MaxSide) :
        d[1] * d[2] * d[3] <= MaxCells }

IsInterior(d, c) == \A i \in Axes : 1 <= c[i] /\ c[i] <= d[i]

\* what the interior's cells are drawn from
InteriorVoxels ==
    { EMPTY, Vox("Translucent", 1, 1), Vox("Opaque", 1, 1), Vox("Opaque", 2, 1) }

\* the padding layer alternates between the two voxels of a pattern
PaddingPatterns ==
    { <<EMPTY, EMPTY>>, <<EMPTY, Vox("Translucent", 1, 1)>>,
      <<Vox("Translucent", 1, 1), Vox("Translucent", 1, 2)>>,
      <<Vox("Opaque", 1, 1), Vox("Opaque", 1, 1)>> }

InteriorCells(d) ==
    { c \in (1..d[1]) \X (1..d[2]) \X (1..d[3]) : TRUE }

InitGreedy ==
    /\ \E d \in InteriorDims :
          /\ shape = <<d[1] + 2, d[2] + 2, d[3] + 2>>
          /\ \E fill \in [InteriorCells(d) -> InteriorVoxels], pad \in PaddingPatterns :
                voxels = [i \in 0..(size(shape) - 1) |->
                            LET c == delinearize(shape, i)
                            IN  IF IsInterior(d, c) THEN fill[c]
                                ELSE pad[1 + ((c[1] + c[2] + c[3]) % 2)]]
    /\ min = <<0, 0, 0>>
    /\ max = <<shape[1] - 1, shape[2] - 1, shape[3] - 1>>
    /\ faces = RIGHT_HANDED_Y_UP
    /\ order \in ScanOrders
    /\ pc = "greedy_call"
    /\ todo = <<>>
    /\ groups = EmptyGroups
    /\ probe = NoProbe
    /\ visited = {}
    /\ face = 1
    /\ last = NoLast

Next == greedy_quads \/ greedy_scan_cell \/ greedy_next_face

Spec == InitGreedy /\ [][Next]_vars

(***************************************************************************)
(* The concrete cases: a solid box of one opaque voxel value in an empty   *)
(* array, with no or one further layer of empty cells inside the meshed    *)
(* interior.  The boxes are the cubes up to side MaxCube and the rows of   *)
(* two voxels along each axis.                                             *)
(***************************************************************************)
BoxDims ==
    { <<n, n, n>> : n \in 1..MaxCube } \cup { <<2, 1, 1>>, <<1, 2, 1>>, <<1, 1, 2>> }

Margins == {0, 1}

OpaqueVoxels == { Vox("Opaque", 1, 1), Vox("Opaque", 2, 1) }

InitCube ==
    /\ \E d \in BoxDims, m \in Margins, full \in OpaqueVoxels :
          /\ shape = <<d[1] + 2 + 2 * m, d[2] + 2 + 2 * m, d[3] + 2 + 2 * m>>
          /\ voxels = [i \in 0..(size(shape) - 1) |->
                         LET c == delinearize(shape, i)
                         IN  IF \A a \in Axes : 1 + m <= c[a] /\ c[a] <= d[a] + m
                             THEN full ELSE EMPTY]
    /\ min = <<0, 0, 0>>
    /\ max = <<shape[1] - 1, shape[2] - 1, shape[3] - 1>>
    /\ faces = RIGHT_HANDED_Y_UP
    /\ order \in ScanOrders
    /\ pc = "greedy_call"
    /\ todo = <<>>
    /\ groups = EmptyGroups
    /\ probe = NoProbe
    /\ visited = {}
    /\ face = 1
    /\ last = NoLast

SpecCube == InitCube /\ [][Next]_vars

(***************************************************************************)
(* What the claims speak of, stated on coordinates in plain integers.      *)
(***************************************************************************)
PlainIndex(c) == c[1] + shape[1] * c[2] + shape[1] * shape[2] * c[3]

VoxelOf(c) == voxels[PlainIndex(c)]

Across(c, f) == [i \in Axes |-> c[i] + signed_normal(faces[f])[i]]

Shift(c, f, a, b) ==
    [i \in Axes |-> c[i] + a * Unit(faces[f].u)[i] + b * Unit(faces[f].v)[i]]

\* the extent shrunk by one cell on every side
ExtentInterior ==
    { <<x, y, z>> : x \in (min[1] + 1)..(max[1] - 1), y \in (min[2] + 1)..(max[2] - 1),
                    z \in (min[3] + 1)..(max[3] - 1) }

\* the Face-Visibility Predicate
Visible(c, f) ==
    LET p == get_visibility(VoxelOf(c))
        n == get_visibility(VoxelOf(Across(c, f)))
    IN  p # "Empty" /\ (n = "Empty" \/ (n = "Translucent" /\ p = "Opaque"))

VisibleCells(f) == { c \in ExtentInterior : Visible(c, f) }

\* what the one-quad-per-face scanner emits on face f for the same extent
NaiveCells(f) ==
    LET cells == iter3(interior_minimum(min, max), interior_shape(min, max))
    IN  { cells[k] : k \in { j \in DOMAIN cells :
            /\ get_visibility(voxels[linearize(shape, cells[j])]) # "Empty"
            /\ simple_face_needs_mesh(
                   voxels[linearize(shape, cells[j])],
                   voxels[wrapping_add(linearize(shape, cells[j]), kernel_stride(f))]) } }

QuadCells(q, f) ==
    { Shift(q.minimum, f, a, b) : a \in 0..(q.width - 1), b \in 0..(q.height - 1) }

Covered(f) == UNION { QuadCells(groups[f][i], f) : i \in DOMAIN groups[f] }

\* the scan of face f is over
FaceScanned(f) ==
    \/ pc = "done"
    \/ pc = "greedy_scan" /\ (f < face \/ (f = face /\ todo = <<>>))

\* the faces whose quads a state is examined for: the face being scanned
\* (the groups of the faces before it no longer change), and all six faces
\* once the call has returned
ExaminedFaces == IF pc = "done" THEN FaceIds ELSE {face}

\* C1: on every face the quads are pairwise disjoint and cover visible cells
\* only; once the face is scanned they cover exactly the cells for which the
\* Face-Visibility Predicate holds, which are the cells the one-quad-per-face
\* scanner emits, and the visited buffer holds exactly those cells.
C1_QuadsPartitionVisibleFaces ==
    \A f \in ExaminedFaces :
        LET visible == VisibleCells(f)
            covered == Covered(f)
        IN  /\ \A i, j \in DOMAIN groups[f] :
                  i < j => QuadCells(groups[f][i], f) \cap QuadCells(groups[f][j], f) = {}
            /\ covered \subseteq visible
            /\ FaceScanned(f) =>
                  /\ covered = visible
                  /\ visible = NaiveCells(f)
            /\ (FaceScanned(f) /\ f = face) =>
                  visited = { PlainIndex(c) : c \in visible }

C1_Witness ==
    \E f \in FaceIds :
          /\ FaceScanned(f)
          /\ Len(groups[f]) >= 2
          /\ \E i \in DOMAIN groups[f] : groups[f][i].width * groups[f][i].height >= 2
          /\ \E i \in DOMAIN groups[f] : groups[f][i].width * groups[f][i].height = 1

\* C5: every cell of an emitted quad has the merge value of the quad's seed
\* cell, and the voxel across the face from it has the neighbour-facing merge
\* value of the voxel across the face from the seed.
C5_QuadKeysUniform ==
    \A f \in ExaminedFaces : \A i \in DOMAIN groups[f] :
        \A c \in QuadCells(groups[f][i], f) :
            /\ merge_value(VoxelOf(c)) = merge_value(VoxelOf(groups[f][i].minimum))
            /\ merge_value_facing_neighbour(VoxelOf(Across(c, f)))
                  = merge_value_facing_neighbour(VoxelOf(Across(groups[f][i].minimum, f)))

\* two visible cells adjacent along U, same merge value, differing keys
\* across the face, scanned and so in two different quads
C5_Witness ==
    \E f \in FaceIds :
        /\ FaceScanned(f)
        /\ \E c \in VisibleCells(f) :
              /\ Shift(c, f, 1, 0) \in VisibleCells(f)
              /\ merge_value(VoxelOf(c)) = merge_value(VoxelOf(Shift(c, f, 1, 0)))
              /\ merge_value_facing_neighbour(VoxelOf(Across(c, f)))
                    # merge_value_facing_neighbour(VoxelOf(Across(Shift(c, f, 1, 0), f)))
              /\ \E i \in DOMAIN groups[f] :
                    /\ c \in QuadCells(groups[f][i], f)
                    /\ Shift(c, f, 1, 0) \notin QuadCells(groups[f][i], f)

\* cell c can join the quad seeded at `seed` on face f, given the visited set
Matches(c, f, seed, vis) ==
    /\ PlainIndex(c) \notin vis
    /\ Visible(c, f)
    /\ merge_value(VoxelOf(c)) = merge_value(VoxelOf(seed))
    /\ merge_value_facing_neighbour(VoxelOf(Across(c, f)))
          = merge_value_facing_neighbour(VoxelOf(Across(seed, f)))

\* the longest run of matching cells along U from the seed, at most cap
LongestRun(f, seed, vis, cap) ==
    CHOOSE k \in 0..cap :
        /\ \A a \in 0..(k - 1) : Matches(Shift(seed, f, a, 0), f, seed, vis)
        /\ k = cap \/ ~Matches(Shift(seed, f, k, 0), f, seed, vis)

RowMatches(f, seed, vis, width, b) ==
    \A a \in 0..(width - 1) : Matches(Shift(seed, f, a, b), f, seed, vis)

\* the number of consecutive rows after the seed's that match on all of
\* their first `width` cells, at most cap
FullRows(f, seed, vis, width, cap) ==
    CHOOSE h \in 0..cap :
        /\ \A b \in 1..h : RowMatches(f, seed, vis, width, b)
        /\ h = cap \/ ~RowMatches(f, seed, vis, width, h + 1)

\* C8: find_quad returns the length of the longest run of matching cells
\* along U from the seed, capped at max_width, and 1 plus the number of
\* consecutive following rows matching on all of their first `width` cells,
\* capped at max_height.
C8_WidthFirstGreedy ==
    last.valid =>
        /\ last.quad_width
              = LongestRun(last.face, last.quad_min, last.visited, last.max_width)
        /\ last.quad_height
              = 1 + FullRows(last.face, last.quad_min, last.visited,
                             last.quad_width, last.max_height - 1)

\* a call whose quad is at least 2 wide and stops below a row that matches
\* on its first cell but not on all of them
C8_Witness ==
    /\ last.valid
    /\ last.quad_width >= 2
    /\ last.quad_height < last.max_height
    /\ Matches(Shift(last.quad_min, last.face, 0, last.quad_height),
               last.face, last.quad_min, last.visited)

\* C9: a call of find_quad on an unvisited, visible seed with max_width and
\* max_height of at least 1 returns 1 <= width <= max_width and
\* 1 <= height <= max_height, and every emitted quad is at least 1 by 1 and
\* lies inside the scanned interior.
C9_QuadWithinBounds ==
    /\ (last.valid /\ last.max_width >= 1 /\ last.max_height >= 1) =>
          /\ 1 <= last.quad_width /\ last.quad_width <= last.max_width
          /\ 1 <= last.quad_height /\ last.quad_height <= last.max_height
    /\ last.valid =>
          /\ PlainIndex(last.quad_min) \notin last.visited
          /\ Visible(last.quad_min, last.face)
          /\ last.max_width >= 1 /\ last.max_height >= 1
    /\ \A f \in ExaminedFaces : \A i \in DOMAIN groups[f] :
          /\ groups[f][i].width >= 1 /\ groups[f][i].height >= 1
          /\ QuadCells(groups[f][i], f) \subseteq ExtentInterior

\* a call that reaches max_width, of at least 2, and stops short of
\* max_height
C9_Witness ==
    /\ last.valid
    /\ last.max_width >= 2
    /\ last.quad_width = last.max_width
    /\ last.quad_height < last.max_height

(***************************************************************************)
(* The concrete cases.                                                     *)
(***************************************************************************)
AllCells ==
    { <<x, y, z>> : x \in 0..(shape[1] - 1), y \in 0..(shape[2] - 1),
                    z \in 0..(shape[3] - 1) }

SolidCells == { c \in AllCells : get_visibility(VoxelOf(c)) # "Empty" }

Extent1(cells, a) == { c[a] : c \in cells }

\* the non-empty voxels are a box of the given dimensions, all opaque, with
\* one merge value and one neighbour-facing merge value
IsSolidBox(d) ==
    /\ SolidCells # {}
    /\ \A a \in Axes : Cardinality(Extent1(SolidCells, a)) = d[a]
    /\ Cardinality(SolidCells) = d[1] * d[2] * d[3]
    /\ \A c \in SolidCells : get_visibility(VoxelOf(c)) = "Opaque"
    /\ \A c, e \in SolidCells : VoxelOf(c) = VoxelOf(e)

\* the layer of the solid cells that faces outward on face f
OutwardLayer(f) ==
    LET n == faces[f].n
    IN  { c \in SolidCells :
            \A e \in SolidCells :
                IF faces[f].n_sign > 0 THEN e[n] <= c[n] ELSE e[n] >= c[n] }

TotalQuads ==
    Len(groups[1]) + Len(groups[2]) + Len(groups[3])
        + Len(groups[4]) + Len(groups[5]) + Len(groups[6])

\* C6: for a solid cube of side N of one opaque voxel value in an empty
\* array the merger emits 6 quads in all: on each face one quad of width N
\* and height N, covering the cube's outward layer on that face.
C6_SolidCubeSixQuads ==
    \A n \in 1..Cardinality(Extent1(SolidCells, 1)) :
        (pc = "done" /\ IsSolidBox(<<n, n, n>>)) =>
            /\ TotalQuads = 6
            /\ \A f \in FaceIds :
                  /\ Len(groups[f]) = 1
                  /\ groups[f][1].width = n
                  /\ groups[f][1].height = n
                  /\ QuadCells(groups[f][1], f) = OutwardLayer(f)

\* the cube of side 2 with a further empty layer around it, meshed
C6_Witness ==
    /\ pc = "done"
    /\ IsSolidBox(<<2, 2, 2>>)
    /\ shape = <<6, 6, 6>>
    /\ TotalQuads = 6

\* the non-empty voxels are a row of two voxels along axis a
IsRow(a) == IsSolidBox([i \in Axes |-> IF i = a THEN 2 ELSE 1])

\* C4 as stated: the two faces whose plane is perpendicular to the row's
\* long axis carry one merged 2x1 quad, and each of the four faces parallel
\* to the row carries two separate 1x1 quads.
C4_AsStated ==
    \A a \in Axes :
        (pc = "done" /\ IsRow(a)) =>
            \A f \in FaceIds :
                IF faces[f].n = a
                THEN /\ Len(groups[f]) = 1
                     /\ groups[f][1].width * groups[f][1].height = 2
                ELSE /\ Len(groups[f]) = 2
                     /\ \A i \in 1..2 :
                           groups[f][i].width = 1 /\ groups[f][i].height = 1

\* C4, amended: each of the four faces parallel to the row carries one
\* merged quad over both voxels (2 wide when the row runs along the face's
\* U, 2 high when it runs along V), and each of the two faces perpendicular
\* to the row's long axis carries one 1x1 quad, on the voxel at that end.
C4_RowMergesOnParallelFaces ==
    \A a \in Axes :
        (pc = "done" /\ IsRow(a)) =>
            /\ TotalQuads = 6
            /\ \A f \in FaceIds :
                  /\ Len(groups[f]) = 1
                  /\ QuadCells(groups[f][1], f) = OutwardLayer(f)
                  /\ groups[f][1].width = (IF faces[f].u = a THEN 2 ELSE 1)
                  /\ groups[f][1].height = (IF faces[f].v = a THEN 2 ELSE 1)
                  /\ faces[f].n = a => Cardinality(OutwardLayer(f)) = 1
                  /\ faces[f].n # a => OutwardLayer(f) = SolidCells

\* a row along X, meshed: merged along V on the Y faces, along U on the Z
\* faces
C4_Witness ==
    /\ pc = "done"
    /\ IsRow(1)
    /\ groups[2][1].height = 2
    /\ groups[3][1].width = 2
    /\ groups[1][1].width = 1 /\ groups[1][1].height = 1

(***************************************************************************)
(* The one-quad-per-face scanner.                                          *)
(***************************************************************************)
InSimple == pc \in {"simple_call", "simple_scan", "done", "panicked", "undefined"}

\* the scanner appended a quad for the probed voxel to group f
Meshed(f) ==
    /\ groups[f] # <<>>
    /\ groups[f][Len(groups[f])].minimum = probe.p

\* C2: for the voxel p just scanned and every face, the face is meshed if
\* and only if p is not Empty and the neighbour across the face is Empty, or
\* Translucent with p Opaque.
C2_FaceMeshedIffVisible ==
    (probe.valid /\ pc # "undefined") =>
        \A f \in FaceIds :
            Meshed(f) <=>
                LET p == get_visibility(VoxelOf(probe.p))
                    n == get_visibility(VoxelOf(Across(probe.p, f)))
                IN  /\ p # "Empty"
                    /\ n = "Empty" \/ (n = "Translucent" /\ p = "Opaque")

\* an opaque voxel scanned with a translucent neighbour, whose face is
\* meshed, and an opaque one, whose face is not
C2_Witness ==
    /\ probe.valid
    /\ get_visibility(VoxelOf(probe.p)) = "Opaque"
    /\ \E f, g \in FaceIds :
          /\ get_visibility(VoxelOf(Across(probe.p, f))) = "Translucent"
          /\ Meshed(f)
          /\ get_visibility(VoxelOf(Across(probe.p, g))) = "Opaque"
          /\ ~Meshed(g)

\* a coordinate of min or of max is outside the shape
OutsideShape == \E i \in Axes : min[i] >= shape[i] \/ max[i] >= shape[i]

\* C3: a call whose extent does not lie within the shape panics at once: no
\* voxel is indexed, nothing is scanned, no quad is appended.
C3_OutOfBoundsPanicsEarly ==
    (OutsideShape /\ pc # "simple_call") =>
        /\ pc = "panicked"
        /\ ~probe.valid
        /\ todo = <<>>
        /\ groups = EmptyGroups

\* the call of the test panics_with_max_out_of_bounds_access, scaled
C3_Witness ==
    /\ pc = "panicked"
    /\ min = <<0, 0, 0>>
    /\ max = <<shape[1], shape[2] - 1, shape[3] - 1>>

\* the cells of the extent's interior in the order of their linear index
InteriorInOrder ==
    [k \in 1..Cardinality(ExtentInterior) |->
        CHOOSE c \in ExtentInterior :
            Cardinality({ e \in ExtentInterior : PlainIndex(e) < PlainIndex(c) }) = k - 1]

ScannedCells ==
    SubSeq(InteriorInOrder, 1, Cardinality(ExtentInterior) - Len(todo))

VisibleInOrder(cells, f) ==
    LET Test(c) == Visible(c, f)
        sel == SelectSeq(cells, Test)
    IN  [k \in DOMAIN sel |-> UnorientedUnitQuad(sel[k])]

\* C7: group f holds exactly one unit quad, with minimum p, for each cell p
\* of the extent's interior scanned so far whose face f passes the
\* Face-Visibility Predicate, in the order of the scan (ascending linear
\* index), and nothing else; on return this is so for the whole interior.
C7_OneUnitQuadPerVisibleFace ==
    (InSimple /\ pc \in {"simple_scan", "done"}) =>
        /\ pc = "done" => todo = <<>>
        /\ \A f \in FaceIds : groups[f] = VisibleInOrder(ScannedCells, f)

\* a call that returned with two quads in one group and an interior voxel
\* without a quad in it
C7_Witness ==
    /\ pc = "done"
    /\ InSimple
    /\ probe.valid
    /\ \E f \in FaceIds :
          /\ Len(groups[f]) >= 2
          /\ Len(groups[f]) < Cardinality(ExtentInterior)

InShape(c) == \A i \in Axes : 0 <= c[i] /\ c[i] < shape[i]

\* C10: every cell the scanner is still to visit lies in the extent's
\* interior; every linear index read for the cell just scanned lies in the
\* array, the cell's index is the linear index of its coordinate, and the
\* index read across face f is the linear index of the coordinate p + normal
\* of f, which lies in the shape.
C10_ReadsInBounds ==
    InSimple =>
        /\ pc # "undefined"
        /\ \A k \in DOMAIN todo : todo[k] \in ExtentInterior
        /\ probe.valid =>
              /\ probe.reads \subseteq 0..(size(shape) - 1)
              /\ probe.p \in ExtentInterior
              /\ probe.p_index = PlainIndex(probe.p)
              /\ DOMAIN probe.neighbor_index = FaceIds =>
                    \A f \in FaceIds :
                        /\ InShape(Across(probe.p, f))
                        /\ probe.neighbor_index[f] = PlainIndex(Across(probe.p, f))

\* a non-empty voxel scanned, its six neighbours read, in an extent that
\* does not start at the array's origin
C10_Witness ==
    /\ probe.valid
    /\ DOMAIN probe.neighbor_index = FaceIds
    /\ min # <<0, 0, 0>>
    /\ probe.neighbor_index[1] = probe.p_index - 1
    /\ probe.neighbor_index[2] = probe.p_index - shape[1]

====
